---- MODULE Spec2Model ----
(***************************************************************************)
(* Model of the logisim_cli_emit package: the argument builder, the two    *)
(* process invokers (Gradle wrapper and direct JAR), the result decoder    *)
(* and the package's command-line entry point.                             *)
(*                                                                         *)
(* A Python str is a sequence of one-character strings, so that            *)
(* formatting, joining, trimming, quoting and JSON decoding are computed   *)
(* character by character.  An Optional value is a sequence of length at   *)
(* most one: <<>> is None and <<x>> is the value x.  A Mapping is the      *)
(* sequence of its (key, value) items in iteration order, keys distinct.   *)
(***************************************************************************)
EXTENDS Integers, Sequences, FiniteSets, TLC

VARIABLES
    op,        \* the entry point called last: "none", "build", "emit", "jar", "main"
    req,       \* the request (keyword arguments) of that call
    opts,      \* the invoker options of that call
    argv,      \* sys.argv[1:] of a run of the entry point
    proc,      \* what the spawned process produced: returncode, stdout, stderr
    spawned,   \* the commands handed to subprocess.run during the call, in order
    status,    \* "none", "returned" or "raised"
    returned,  \* the value returned, when status = "returned"
    raised     \* the exception raised, when status = "raised"

vars == <<op, req, opts, argv, proc, spawned, status, returned, raised>>

(***************************************************************************)
(* Bounds of the model.                                                    *)
(***************************************************************************)
MaxAttrs == 2
MaxExtra == 2
MaxArgv == 2

(***************************************************************************)
(* String literals of the source.                                          *)
(***************************************************************************)
sComponentOpt == <<"-","-","c","o","m","p","o","n","e","n","t">>
sAttrOpt == <<"-","-","a","t","t","r">>
sLocOpt == <<"-","-","l","o","c">>
sXmlPrettyOpt == <<"-","-","x","m","l","-","p","r","e","t","t","y">>
sXmlOutOpt == <<"-","-","x","m","l","-","o","u","t">>
sPinsOutOpt == <<"-","-","p","i","n","s","-","o","u","t">>
sGradlewBat == <<"g","r","a","d","l","e","w",".","b","a","t">>
sGradlew == <<".","/","g","r","a","d","l","e","w">>
sDaemon == <<"-","-","d","a","e","m","o","n">>
sQuiet == <<"-","q">>
sEmitComponent == <<"e","m","i","t","C","o","m","p","o","n","e","n","t">>
sArgsEq == <<"-","-","a","r","g","s","=">>
sArgs == <<"-","-","a","r","g","s">>
sCp == <<"-","c","p">>
sEmitComponentCli == <<"c","o","m",".","c","b","u","r","c","h",".","l","o","g","i","s","i","m",".","c","l","i",".","E","m","i","t","C","o","m","p","o","n","e","n","t","C","l","i">>
sDefaultJar == <<"b","u","i","l","d","/","l","i","b","s","/","l","o","g","i","s","i","m","-","e","v","o","l","u","t","i","o","n","-","a","l","l",".","j","a","r">>
sDefaultJava == <<"j","a","v","a">>
sFailed == <<"e","m","i","t","C","o","m","p","o","n","e","n","t"," ","f","a","i","l","e","d"," ">>
sExitOpen == <<"(","e","x","i","t","=">>
sExitClose == <<")",":"," ">>

(***************************************************************************)
(* Python values and built-ins used by the source.                         *)
(***************************************************************************)
None == <<>>
Some(x) == <<x>>

\* Truth value of an Optional str, Sequence or Mapping: None and the empty
\* value are both false.
Truthy(opt) == opt # None /\ opt[1] # <<>>

\* f"{name}={value}"
FormatAttr(name, value) == name \o <<"=">> \o value

\* sep.join(parts)
RECURSIVE Join(_, _)
Join(sep, parts) ==
    IF parts = <<>> THEN <<>>
    ELSE IF Len(parts) = 1 THEN parts[1]
    ELSE parts[1] \o sep \o Join(sep, Tail(parts))

\* the characters str.strip() removes
Whitespace == {" ", "\t", "\n", "\r", "\f"}

RECURSIVE LStrip(_)
LStrip(s) ==
    IF s # <<>> /\ s[1] \in Whitespace THEN LStrip(Tail(s)) ELSE s

RECURSIVE RStrip(_)
RStrip(s) ==
    IF s # <<>> /\ s[Len(s)] \in Whitespace THEN RStrip(SubSeq(s, 1, Len(s) - 1)) ELSE s

\* s.strip()
Strip(s) == RStrip(LStrip(s))

Digits == <<"0", "1", "2", "3", "4", "5", "6", "7", "8", "9">>

RECURSIVE NatToStr(_)
NatToStr(n) ==
    IF n < 10 THEN <<Digits[n + 1]>>
    ELSE NatToStr(n \div 10) \o <<Digits[(n % 10) + 1]>>

\* f"{n}" of an int
IntToStr(n) == IF n < 0 THEN <<"-">> \o NatToStr(0 - n) ELSE NatToStr(n)

(***************************************************************************)
(* _build_cli_args                                                         *)
(***************************************************************************)
\* variant of AttrArgs: the pair is appended without its option token
RECURSIVE AttrArgsOrphan(_)
AttrArgsOrphan(items) ==
    IF items = <<>> THEN <<>>
    ELSE <<FormatAttr(items[1][1], items[1][2])>> \o AttrArgsOrphan(Tail(items))

\* the loop over attrs.items()
RECURSIVE AttrArgs(_)
AttrArgs(items) ==
    IF items = <<>> THEN <<>>
    ELSE <<sAttrOpt, FormatAttr(items[1][1], items[1][2])>> \o AttrArgs(Tail(items))

\* variant of _build_cli_args: --xml-out is appended before --xml-pretty
_build_cli_args_swapped(component, attrs, location, xml_out, xml_pretty, pins_out, extra_args) ==
    LET a0 == <<sComponentOpt, component>>
        a1 == IF Truthy(attrs) THEN a0 \o AttrArgs(attrs[1]) ELSE a0
        a2 == IF Truthy(location) THEN a1 \o <<sLocOpt, location[1]>> ELSE a1
        a3 == IF Truthy(xml_out) THEN a2 \o <<sXmlOutOpt, xml_out[1]>> ELSE a2
        a4 == IF xml_pretty THEN a3 \o <<sXmlPrettyOpt>> ELSE a3
        a5 == IF Truthy(pins_out) THEN a4 \o <<sPinsOutOpt, pins_out[1]>> ELSE a4
        a6 == IF Truthy(extra_args) THEN a5 \o extra_args[1] ELSE a5
    IN  a6

\* variant of _build_cli_args: --xml-pretty is given a value token
_build_cli_args_pretty_value(component, attrs, location, xml_out, xml_pretty, pins_out, extra_args) ==
    LET a0 == <<sComponentOpt, component>>
        a1 == IF Truthy(attrs) THEN a0 \o AttrArgs(attrs[1]) ELSE a0
        a2 == IF Truthy(location) THEN a1 \o <<sLocOpt, location[1]>> ELSE a1
        a3 == IF xml_pretty THEN a2 \o <<sXmlPrettyOpt, <<"t","r","u","e">>>> ELSE a2
        a4 == IF Truthy(xml_out) THEN a3 \o <<sXmlOutOpt, xml_out[1]>> ELSE a3
        a5 == IF Truthy(pins_out) THEN a4 \o <<sPinsOutOpt, pins_out[1]>> ELSE a4
        a6 == IF Truthy(extra_args) THEN a5 \o extra_args[1] ELSE a5
    IN  a6

\* variant of _build_cli_args: the extra arguments precede the output paths
_build_cli_args_extras_first(component, attrs, location, xml_out, xml_pretty, pins_out, extra_args) ==
    LET a0 == <<sComponentOpt, component>>
        a1 == IF Truthy(attrs) THEN a0 \o AttrArgs(attrs[1]) ELSE a0
        a2 == IF Truthy(location) THEN a1 \o <<sLocOpt, location[1]>> ELSE a1
        a3 == IF xml_pretty THEN a2 \o <<sXmlPrettyOpt>> ELSE a2
        a4 == IF Truthy(extra_args) THEN a3 \o extra_args[1] ELSE a3
        a5 == IF Truthy(xml_out) THEN a4 \o <<sXmlOutOpt, xml_out[1]>> ELSE a4
        a6 == IF Truthy(pins_out) THEN a5 \o <<sPinsOutOpt, pins_out[1]>> ELSE a5
    IN  a6

\* _build_cli_args, statement by statement
_build_cli_args(component, attrs, location, xml_out, xml_pretty, pins_out, extra_args) ==
    LET a0 == <<sComponentOpt, component>>
        a1 == IF Truthy(attrs) THEN a0 \o AttrArgs(attrs[1]) ELSE a0
        a2 == IF Truthy(location) THEN a1 \o <<sLocOpt, location[1]>> ELSE a1
        a3 == IF xml_pretty THEN a2 \o <<sXmlPrettyOpt>> ELSE a2
        a4 == IF Truthy(xml_out) THEN a3 \o <<sXmlOutOpt, xml_out[1]>> ELSE a3
        a5 == IF Truthy(pins_out) THEN a4 \o <<sPinsOutOpt, pins_out[1]>> ELSE a4
        a6 == IF Truthy(extra_args) THEN a5 \o extra_args[1] ELSE a5
    IN  a6

\* the call with the request's keyword arguments
BuildArgs(r) ==
    _build_cli_args(r.component, r.attrs, r.location, r.xml_out, r.xml_pretty,
                    r.pins_out, r.extra_args)

(***************************************************************************)
(* json.loads, as called by the decoder.  A decoded value is a record      *)
(* [t, s, n, kids]: t is the Python type ("dict", "list", "str", "int",    *)
(* "bool", "NoneType"), s the text of a str (or the key of a dict item),   *)
(* n the number of an int or bool, kids the elements of a list or the      *)
(* items of a dict.  Modelled: objects, arrays, strings with the simple    *)
(* escapes, integers and the three literals; fractions, exponents, \u      *)
(* escapes and the NaN/Infinity extensions are outside the alphabet.       *)
(***************************************************************************)
JNull == [t |-> "NoneType", s |-> <<>>, n |-> 0, kids |-> <<>>]
JBool(b) == [t |-> "bool", s |-> <<>>, n |-> IF b THEN 1 ELSE 0, kids |-> <<>>]
JInt(n) == [t |-> "int", s |-> <<>>, n |-> n, kids |-> <<>>]
JStr(s) == [t |-> "str", s |-> s, n |-> 0, kids |-> <<>>]
JList(kids) == [t |-> "list", s |-> <<>>, n |-> 0, kids |-> kids]
JItem(k, v) == [t |-> "item", s |-> k, n |-> 0, kids |-> <<v>>]
JDict(items) == [t |-> "dict", s |-> <<>>, n |-> 0, kids |-> items]

\* the literal {} of the decoder
EmptyDict == JDict(<<>>)

\* d[k] = v on the items of a dict: a repeated key keeps its place and takes
\* the new value
DictSet(items, k, v) ==
    IF \E i \in DOMAIN items : items[i].s = k
    THEN [i \in DOMAIN items |-> IF items[i].s = k THEN JItem(k, v) ELSE items[i]]
    ELSE Append(items, JItem(k, v))

JsonWhitespace == {" ", "\t", "\n", "\r"}
ControlChars == {"\t", "\n", "\r", "\f"}
DigitChars == {Digits[i] : i \in DOMAIN Digits}
DigitValue(c) == CHOOSE d \in 0..9 : Digits[d + 1] = c

ParseFail == [ok |-> FALSE, val |-> JNull, end |-> 0]
ParseOk(v, e) == [ok |-> TRUE, val |-> v, end |-> e]

HasAt(s, i, lit) == i + Len(lit) - 1 <= Len(s) /\ SubSeq(s, i, i + Len(lit) - 1) = lit

RECURSIVE SkipWs(_, _)
SkipWs(s, i) ==
    IF i <= Len(s) /\ s[i] \in JsonWhitespace THEN SkipWs(s, i + 1) ELSE i

Unescape(c) ==
    CASE c = "n" -> "\n"
      [] c = "t" -> "\t"
      [] c = "r" -> "\r"
      [] c = "f" -> "\f"
      [] OTHER -> c

\* py_scanstring, from the character after the opening quote
RECURSIVE ScanString(_, _, _)
ScanString(s, i, acc) ==
    IF i > Len(s) THEN ParseFail
    ELSE IF s[i] = "\"" THEN ParseOk(JStr(acc), i + 1)
    ELSE IF s[i] \in ControlChars THEN ParseFail
    ELSE IF s[i] = "\\"
         THEN IF i + 1 <= Len(s) /\ s[i + 1] \in {"\"", "\\", "/", "n", "t", "r", "f"}
              THEN ScanString(s, i + 2, Append(acc, Unescape(s[i + 1])))
              ELSE ParseFail
    ELSE ScanString(s, i + 1, Append(acc, s[i]))

RECURSIVE ScanDigits(_, _, _)
ScanDigits(s, i, n) ==
    IF i <= Len(s) /\ s[i] \in DigitChars
    THEN ScanDigits(s, i + 1, 10 * n + DigitValue(s[i]))
    ELSE ParseOk(JInt(n), i)

\* NUMBER_RE: -?(0|[1-9][0-9]*)
ScanNumber(s, i) ==
    LET neg == s[i] = "-"
        j == IF neg THEN i + 1 ELSE i
    IN  IF j > Len(s) \/ s[j] \notin DigitChars THEN ParseFail
        ELSE LET r == IF s[j] = "0" THEN ParseOk(JInt(0), j + 1) ELSE ScanDigits(s, j, 0)
             IN  ParseOk(JInt(IF neg THEN 0 - r.val.n ELSE r.val.n), r.end)

RECURSIVE ScanOnce(_, _), ArrayLoop(_, _, _), ObjectLoop(_, _, _)

\* JSONArray, from the character after "["
ParseArray(s, i) ==
    LET j == SkipWs(s, i)
    IN  IF j <= Len(s) /\ s[j] = "]" THEN ParseOk(JList(<<>>), j + 1)
        ELSE ArrayLoop(s, j, <<>>)

\* JSONObject, from the character after "{"
ParseObject(s, i) ==
    LET j == SkipWs(s, i)
    IN  IF j <= Len(s) /\ s[j] = "}" THEN ParseOk(EmptyDict, j + 1)
        ELSE ObjectLoop(s, j, <<>>)

ScanOnce(s, i) ==
    IF i > Len(s) THEN ParseFail
    ELSE IF s[i] = "\"" THEN ScanString(s, i + 1, <<>>)
    ELSE IF s[i] = "{" THEN ParseObject(s, i + 1)
    ELSE IF s[i] = "[" THEN ParseArray(s, i + 1)
    ELSE IF HasAt(s, i, <<"n","u","l","l">>) THEN ParseOk(JNull, i + 4)
    ELSE IF HasAt(s, i, <<"t","r","u","e">>) THEN ParseOk(JBool(TRUE), i + 4)
    ELSE IF HasAt(s, i, <<"f","a","l","s","e">>) THEN ParseOk(JBool(FALSE), i + 5)
    ELSE IF s[i] = "-" \/ s[i] \in DigitChars THEN ScanNumber(s, i)
    ELSE ParseFail

ArrayLoop(s, j, acc) ==
    LET v == ScanOnce(s, j)
    IN  IF ~v.ok THEN ParseFail
        ELSE LET k == SkipWs(s, v.end)
                 vals == Append(acc, v.val)
             IN  IF k > Len(s) THEN ParseFail
                 ELSE IF s[k] = "]" THEN ParseOk(JList(vals), k + 1)
                 ELSE IF s[k] = "," THEN ArrayLoop(s, SkipWs(s, k + 1), vals)
                 ELSE ParseFail

ObjectLoop(s, j, items) ==
    IF j > Len(s) \/ s[j] # "\"" THEN ParseFail
    ELSE LET key == ScanString(s, j + 1, <<>>)
         IN  IF ~key.ok THEN ParseFail
             ELSE LET k == SkipWs(s, key.end)
                  IN  IF k > Len(s) \/ s[k] # ":" THEN ParseFail
                      ELSE LET v == ScanOnce(s, SkipWs(s, k + 1))
                           IN  IF ~v.ok THEN ParseFail
                               ELSE LET m == SkipWs(s, v.end)
                                        next == DictSet(items, key.val.s, v.val)
                                    IN  IF m > Len(s) THEN ParseFail
                                        ELSE IF s[m] = "}" THEN ParseOk(JDict(next), m + 1)
                                        ELSE IF s[m] = "," THEN ObjectLoop(s, SkipWs(s, m + 1), next)
                                        ELSE ParseFail

\* json.loads(s): ok is FALSE where json.JSONDecodeError is raised
JsonLoads(s) ==
    LET v == ScanOnce(s, SkipWs(s, 1))
    IN  IF v.ok /\ SkipWs(s, v.end) = Len(s) + 1 THEN v ELSE ParseFail

(***************************************************************************)
(* The exit-code check and the decoder shared by both invokers.            *)
(***************************************************************************)
NoValue == <<>>
Returns(v) == [status |-> "returned", returned |-> v, raised |-> NoValue]
Raises(type, msg) == [status |-> "raised", returned |-> NoValue, raised |-> [type |-> type, msg |-> msg]]

\* EmitResult(stdout=..., data=...)
EmitResult(stdout, data) == [stdout |-> stdout, data |-> data]

\* f"emitComponent failed (exit={returncode}): {stderr.strip()}"
FailureMessage(p) ==
    sFailed \o sExitOpen \o IntToStr(p.returncode) \o sExitClose \o Strip(p.stderr)

\* variant of Decode: stdout is not trimmed
DecodeNoStrip(out) ==
    LET stdout == out
    IN  IF stdout # <<>>
        THEN LET d == JsonLoads(stdout)
             IN  IF d.ok THEN Returns(EmitResult(stdout, d.val))
                 ELSE Raises("JSONDecodeError", <<>>)
        ELSE Returns(EmitResult(stdout, EmptyDict))

\* stdout = (result.stdout or "").strip(); data = json.loads(stdout) if stdout else {}
Decode(out) ==
    LET stdout == Strip(out)
    IN  IF stdout # <<>>
        THEN LET d == JsonLoads(stdout)
             IN  IF d.ok THEN Returns(EmitResult(stdout, d.val))
                 ELSE Raises("JSONDecodeError", <<>>)
        ELSE Returns(EmitResult(stdout, EmptyDict))

\* variant of Finish: stdout is decoded before the exit code is tested
FinishDecodeFirst(check, p) ==
    LET r == Decode(p.stdout)
    IN  IF r.status = "raised" THEN r
        ELSE IF check /\ p.returncode # 0 THEN Raises("RuntimeError", FailureMessage(p))
        ELSE r

\* variant of Finish: the exit code is tested whatever check says
FinishAlwaysStrict(check, p) ==
    IF p.returncode # 0 THEN Raises("RuntimeError", FailureMessage(p))
    ELSE Decode(p.stdout)

\* everything after subprocess.run returns
Finish(check, p) ==
    IF check /\ p.returncode # 0 THEN Raises("RuntimeError", FailureMessage(p))
    ELSE Decode(p.stdout)

(***************************************************************************)
(* The commands of the two invokers.                                       *)
(***************************************************************************)
\* variant of GradlePath: an empty gradle_path is defaulted too
GradlePathFalsy(gradle_path, os_name) ==
    IF ~Truthy(gradle_path)
    THEN (IF os_name = "nt" THEN sGradlewBat ELSE sGradlew)
    ELSE gradle_path[1]

\* gradle_path, defaulted by os.name when it is None
GradlePath(gradle_path, os_name) ==
    IF gradle_path = None
    THEN (IF os_name = "nt" THEN sGradlewBat ELSE sGradlew)
    ELSE gradle_path[1]

\* the command of emit_component
GradleCommand(args, gradle_path, os_name) ==
    LET args_value == Join(<<" ">>, args)
    IN  <<GradlePath(gradle_path, os_name), sDaemon, sQuiet, sEmitComponent,
          sArgsEq \o args_value>>

\* the command of emit_component_jar
JarCommand(args, jar_path, java_path) ==
    <<java_path, sCp, jar_path, sEmitComponentCli>> \o args

(***************************************************************************)
(* __main__.main: the entry point.                                         *)
(***************************************************************************)
Letters ==
    {"a", "b", "c", "d", "e", "f", "g", "h", "i", "j", "k", "l", "m", "n", "o", "p", "q",
     "r", "s", "t", "u", "v", "w", "x", "y", "z", "A", "B", "C", "D", "E", "F", "G", "H",
     "I", "J", "K", "L", "M", "N", "O", "P", "Q", "R", "S", "T", "U", "V", "W", "X", "Y",
     "Z"}

\* the characters shlex.quote leaves alone: [\w@%+=:,./-]
SafeChars == Letters \cup DigitChars \cup {"_", "@", "%", "+", "=", ":", ",", ".", "/", "-"}

\* s.replace("'", "'\"'\"'")
RECURSIVE EscapeQuotes(_)
EscapeQuotes(s) ==
    IF s = <<>> THEN <<>>
    ELSE (IF s[1] = "'" THEN <<"'", "\"", "'", "\"", "'">> ELSE <<s[1]>>)
         \o EscapeQuotes(Tail(s))

\* variant of ShlexQuote: no quoting
ShlexQuoteNone(s) == s

\* shlex.quote(s)
ShlexQuote(s) ==
    IF s = <<>> THEN <<"'", "'">>
    ELSE IF \A i \in DOMAIN s : s[i] \in SafeChars THEN s
    ELSE <<"'">> \o EscapeQuotes(s) \o <<"'">>

\* shlex.join(split_command)
ShlexJoin(tokens) == Join(<<" ">>, [i \in DOMAIN tokens |-> ShlexQuote(tokens[i])])

\* the command of main
MainCommand(a) == <<sGradlew, sQuiet, sEmitComponent, sArgs, ShlexJoin(a)>>

(***************************************************************************)
(* The inputs the operations are called with.                              *)
(***************************************************************************)
sAndGate == <<"A","N","D"," ","G","a","t","e">>
sPin == <<"P","i","n">>
sFacing == <<"f","a","c","i","n","g">>
sEast == <<"e","a","s","t">>
sWidth == <<"w","i","d","t","h">>
sEight == <<"8">>
sLabel == <<"l","a","b","e","l">>
sLoc == <<"4","0",",","2","0">>
sXmlPath == <<"o","u","t",".","x","m","l">>
sPinsPath == <<"p","i","n","s",".","j","s","o","n">>
sVerbose == <<"-","v">>
sGw == <<"g","w">>
sJre == <<"j","r","e","/","b","i","n","/","j","a","v","a">>
sOtherJar == <<"a","p","p",".","j","a","r">>
sBoom == <<"b","o","o","m">>
sBoomPadded == <<" ","b","o","o","m","\n">>
sOkTrue == <<"{","\"","o","k","\"",":"," ","t","r","u","e","}">>
sItsToken == <<"i","t","'","s">>

Components == {sAndGate, sPin}
AttrNames == {sFacing, sWidth, sLabel}
AttrValues == {sEast, sEight}

\* the mappings of at most MaxAttrs entries, as their items in iteration order
AttrMaps ==
    {m \in UNION {[1..k -> AttrNames \X AttrValues] : k \in 0..MaxAttrs} :
        \A i, j \in DOMAIN m : i # j => m[i][1] # m[j][1]}

OptStr(values) == {None} \cup {Some(v) : v \in values}

ExtraTokens == {sAttrOpt, sXmlPrettyOpt, sVerbose}
ExtraSeqs == UNION {[1..k -> ExtraTokens] : k \in 0..MaxExtra}

Requests ==
    [component : Components,
     attrs : OptStr(AttrMaps),
     location : OptStr({<<>>, sLoc}),
     xml_out : OptStr({<<>>, sXmlPath}),
     xml_pretty : BOOLEAN,
     pins_out : OptStr({<<>>, sPinsPath}),
     extra_args : OptStr(ExtraSeqs)]

\* the requests the invokers are run with
InvokerRequests ==
    [component : Components,
     attrs : {None, Some(<<<<sFacing, sEast>>>>)},
     location : {None, Some(sLoc)},
     xml_out : {None},
     xml_pretty : BOOLEAN,
     pins_out : {None},
     extra_args : {None, Some(<<sVerbose>>)}]

ReturnCodes == {0, 1, 127, -9}

Stdouts ==
    {<<>>, <<" "," ","\n">>, sOkTrue, <<"{","\"","o","k","\"",":"," ","t","r","u","e","}","\n">>, <<"\f","{","}","\f">>, <<"[","]">>, <<"[","1",","," ","2","]">>, <<"7">>,
     <<"\"","a","\"">>, <<"n","u","l","l">>, <<"t","r","u","e">>, <<"{","\"","o","k","\"",":">>, <<"b","o","o","m">>, <<"{","\"","a","\"",":"," ","1",","," ","\"","a","\"",":"," ","2","}">>,
     <<"{","\"","p","i","n","s","\"",":"," ","[","{","\"","x","\"",":"," ","-","1","0","}","]","}">>, <<"{","}"," ","{","}">>}

Stderrs == {<<>>, sBoom, sBoomPadded}

ProcResults == [returncode : ReturnCodes, stdout : Stdouts, stderr : Stderrs]

GradleOpts ==
    [check : BOOLEAN, gradle_path : OptStr({<<>>, sGw}), os_name : {"nt", "posix"},
     jar_path : {sDefaultJar}, java_path : {sDefaultJava}]

JarOpts ==
    [check : BOOLEAN, gradle_path : {None}, os_name : {"posix"},
     jar_path : {sDefaultJar, sOtherJar}, java_path : {sDefaultJava, sJre}]

ArgvTokens == {sComponentOpt, sAndGate, sPin, <<>>, sItsToken}
Argvs == UNION {[1..k -> ArgvTokens] : k \in 0..MaxArgv}

NoRequest ==
    [component |-> <<>>, attrs |-> None, location |-> None, xml_out |-> None,
     xml_pretty |-> FALSE, pins_out |-> None, extra_args |-> None]
NoOpts ==
    [check |-> TRUE, gradle_path |-> None, os_name |-> "posix",
     jar_path |-> sDefaultJar, java_path |-> sDefaultJava]
NoProc == [returncode |-> 0, stdout |-> <<>>, stderr |-> <<>>]

(***************************************************************************)
(* The state machine: one action per entry point of the package.  The      *)
(* package keeps no state between calls, so a behaviour is a single call:  *)
(* each action starts from the initial state and records the call's        *)
(* inputs, the commands it spawned and how it ended.                       *)
(***************************************************************************)
Init ==
    /\ op = "none"
    /\ req = NoRequest
    /\ opts = NoOpts
    /\ argv = <<>>
    /\ proc = NoProc
    /\ spawned = <<>>
    /\ status = "none"
    /\ returned = NoValue
    /\ raised = NoValue

\* _build_cli_args(component, attrs=..., ...)
CallBuild ==
    /\ op = "none"
    /\ \E r \in Requests :
        /\ op' = "build"
        /\ req' = r
        /\ opts' = NoOpts
        /\ argv' = <<>>
        /\ proc' = NoProc
        /\ spawned' = <<>>
        /\ status' = "returned"
        /\ returned' = BuildArgs(r)
        /\ raised' = NoValue

\* emit_component(component, ..., gradle_path=..., check=...); the spawned
\* process ends with any exit code and any output
EmitComponent ==
    /\ op = "none"
    /\ \E r \in InvokerRequests, o \in GradleOpts, p \in ProcResults :
        LET args == BuildArgs(r)
            command == GradleCommand(args, o.gradle_path, o.os_name)
            out == Finish(o.check, p)
        IN  /\ op' = "emit"
            /\ req' = r
            /\ opts' = o
            /\ argv' = <<>>
            /\ proc' = p
            /\ spawned' = <<command>>
            /\ status' = out.status
            /\ returned' = out.returned
            /\ raised' = out.raised

\* emit_component_jar(component, ..., jar_path=..., java_path=..., check=...)
EmitComponentJar ==
    /\ op = "none"
    /\ \E r \in InvokerRequests, o \in JarOpts, p \in ProcResults :
        LET args == BuildArgs(r)
            command == JarCommand(args, o.jar_path, o.java_path)
            out == Finish(o.check, p)
        IN  /\ op' = "jar"
            /\ req' = r
            /\ opts' = o
            /\ argv' = <<>>
            /\ proc' = p
            /\ spawned' = <<command>>
            /\ status' = out.status
            /\ returned' = out.returned
            /\ raised' = out.raised

\* main() with sys.argv[1:] = a; the output of the process is not captured
Main ==
    /\ op = "none"
    /\ \E a \in Argvs, rc \in ReturnCodes :
        /\ op' = "main"
        /\ req' = NoRequest
        /\ opts' = NoOpts
        /\ argv' = a
        /\ proc' = [returncode |-> rc, stdout |-> <<>>, stderr |-> <<>>]
        /\ spawned' = <<MainCommand(a)>>
        /\ status' = "returned"
        /\ returned' = rc
        /\ raised' = NoValue

Next == CallBuild \/ EmitComponent \/ EmitComponentJar \/ Main

Spec == Init /\ [][Next]_vars

(***************************************************************************)
(* Vocabulary of the properties.                                           *)
(***************************************************************************)
Count(tok, a) == Cardinality({i \in DOMAIN a : a[i] = tok})
Contains(hay, needle) ==
    \E i \in 0..(Len(hay) - Len(needle)) : SubSeq(hay, i + 1, i + Len(needle)) = needle
ValueOf(opt) == IF opt = None THEN <<>> ELSE opt[1]
Width(present, n) == IF present THEN n ELSE 0
RemoveAt(a, p) == SubSeq(a, 1, p - 1) \o SubSeq(a, p + 1, Len(a))
Invoked == op \in {"emit", "jar"}
PassedExitCheck == ~(opts.check /\ proc.returncode # 0)

\* the tokens the caller supplies that the builder copies verbatim
CallerTokens(r) ==
    <<r.component>>
    \o (IF Truthy(r.location) THEN <<r.location[1]>> ELSE <<>>)
    \o (IF Truthy(r.xml_out) THEN <<r.xml_out[1]>> ELSE <<>>)
    \o (IF Truthy(r.pins_out) THEN <<r.pins_out[1]>> ELSE <<>>)
    \o ValueOf(r.extra_args)

\* the layout of section 4.1, position by position: --loc, --xml-out and
\* --pins-out are laid out when hasLoc, hasXml and hasPins say so
Layout(r, a, hasLoc, hasXml, hasPins) ==
    LET items == ValueOf(r.attrs)
        extras == ValueOf(r.extra_args)
        n == Len(items)
        pLoc == 2 + 2 * n
        pPretty == pLoc + Width(hasLoc, 2)
        pXml == pPretty + Width(r.xml_pretty, 1)
        pPins == pXml + Width(hasXml, 2)
        pExtra == pPins + Width(hasPins, 2)
    IN  /\ Len(a) = pExtra + Len(extras)
        /\ a[1] = sComponentOpt
        /\ a[2] = r.component
        /\ \A i \in 1..n :
              /\ a[2 * i + 1] = sAttrOpt
              /\ a[2 * i + 2] = items[i][1] \o <<"=">> \o items[i][2]
        /\ hasLoc => a[pLoc + 1] = sLocOpt /\ a[pLoc + 2] = r.location[1]
        /\ r.xml_pretty => a[pPretty + 1] = sXmlPrettyOpt
        /\ hasXml => a[pXml + 1] = sXmlOutOpt /\ a[pXml + 2] = r.xml_out[1]
        /\ hasPins => a[pPins + 1] = sPinsOutOpt /\ a[pPins + 2] = r.pins_out[1]
        /\ \A i \in 1..Len(extras) : a[pExtra + i] = extras[i]

\* the request of the example of section 8
ExampleRequest ==
    [component |-> sAndGate, attrs |-> Some(<<<<sFacing, sEast>>>>), location |-> Some(sLoc),
     xml_out |-> None, xml_pretty |-> FALSE, pins_out |-> None, extra_args |-> None]
ExampleArgs == <<sComponentOpt, sAndGate, sAttrOpt, <<"f","a","c","i","n","g","=","e","a","s","t">>, sLocOpt, sLoc>>

(***************************************************************************)
(* C1                                                                      *)
(***************************************************************************)
\* C1 as stated: the built sequence is --component <name>, one --attr k=v
\* pair per entry, then --loc <loc> whenever a location is given, then
\* --xml-pretty if the flag is set, then --xml-out <path> and --pins-out
\* <path> whenever such a path is given, then the extra arguments.
C1_LayoutWhenGiven ==
    op = "build" =>
        Layout(req, returned, req.location # None, req.xml_out # None, req.pins_out # None)

\* C1 amended: the same layout, where --loc, --xml-out and --pins-out are
\* emitted only for a value that is given and is not the empty string; the
\* example of section 8 yields exactly its six tokens.
C1_LayoutWhenNonEmpty ==
    op = "build" =>
        /\ Layout(req, returned, Truthy(req.location), Truthy(req.xml_out),
                  Truthy(req.pins_out))
        /\ req = ExampleRequest => returned = ExampleArgs

C1_Witness ==
    /\ op = "build"
    /\ Truthy(req.attrs) /\ Len(req.attrs[1]) = 2
    /\ req.location = Some(<<>>)
    /\ req.xml_pretty
    /\ Truthy(req.xml_out)
    /\ Truthy(req.pins_out)
    /\ Truthy(req.extra_args) /\ Len(req.extra_args[1]) = 2
    /\ Len(returned) = 13

(***************************************************************************)
(* C2                                                                      *)
(***************************************************************************)
\* C2 as stated: the number of --attr tokens of the built sequence equals
\* the number of entries of the mapping, and the k-th --attr token is
\* immediately followed by name=value of the k-th entry.
C2_AttrCountEqualsEntries ==
    op = "build" =>
        LET items == ValueOf(req.attrs)
            at == {i \in DOMAIN returned : returned[i] = sAttrOpt}
        IN  /\ Cardinality(at) = Len(items)
            /\ \A i \in at :
                  LET k == Cardinality({j \in at : j <= i})
                  IN  /\ i + 1 <= Len(returned)
                      /\ returned[i + 1] = items[k][1] \o <<"=">> \o items[k][2]

\* C2 amended: the entries are emitted right after the component name as
\* consecutive pairs --attr, name=value in iteration order, and the number
\* of --attr tokens of the whole sequence is the number of entries plus the
\* number of caller-supplied verbatim tokens (component name, location,
\* paths, extra arguments) that are themselves "--attr".
C2_AttrPairsPerEntry ==
    op = "build" =>
        LET items == ValueOf(req.attrs)
        IN  /\ \A k \in 1..Len(items) :
                  /\ returned[2 * k + 1] = sAttrOpt
                  /\ returned[2 * k + 2] = items[k][1] \o <<"=">> \o items[k][2]
            /\ Count(sAttrOpt, returned) = Len(items) + Count(sAttrOpt, CallerTokens(req))

C2_Witness ==
    /\ op = "build"
    /\ Len(ValueOf(req.attrs)) = 2
    /\ Count(sAttrOpt, ValueOf(req.extra_args)) = 1
    /\ Count(sAttrOpt, returned) = 3
    /\ returned[Len(returned)] = sAttrOpt

(***************************************************************************)
(* C3                                                                      *)
(***************************************************************************)
\* C3 as stated: --xml-pretty appears in the built sequence if and only if
\* the xml_pretty flag is true.
C3_PrettyIffFlag ==
    op = "build" => ((Count(sXmlPrettyOpt, returned) > 0) <=> req.xml_pretty)

\* C3 amended: the builder itself emits --xml-pretty if and only if the flag
\* is true, as one token without a value, after the attribute and location
\* pairs; the sequence holds that token once more for every caller-supplied
\* verbatim token (such as an extra argument) that is "--xml-pretty".
C3_PrettyEmittedIffFlag ==
    op = "build" =>
        LET p == 3 + 2 * Len(ValueOf(req.attrs)) + Width(Truthy(req.location), 2)
            plain == BuildArgs([req EXCEPT !.xml_pretty = FALSE])
        IN  /\ Count(sXmlPrettyOpt, returned)
                 = Width(req.xml_pretty, 1) + Count(sXmlPrettyOpt, CallerTokens(req))
            /\ req.xml_pretty =>
                  /\ returned[p] = sXmlPrettyOpt
                  /\ RemoveAt(returned, p) = plain
            /\ ~req.xml_pretty => returned = plain

C3_Witness ==
    /\ op = "build"
    /\ req.xml_pretty
    /\ Truthy(req.xml_out)
    /\ Count(sXmlPrettyOpt, ValueOf(req.extra_args)) = 1
    /\ Count(sXmlPrettyOpt, returned) = 2

(***************************************************************************)
(* C4                                                                      *)
(***************************************************************************)
\* C4: the extra arguments are the final suffix of the built sequence, in
\* their order and unmodified; what precedes them is exactly the structured
\* options, and nothing follows them.
C4_ExtrasAreSuffix ==
    op = "build" =>
        LET extras == ValueOf(req.extra_args)
            k == Len(returned) - Len(extras)
        IN  /\ k = 2 + 2 * Len(ValueOf(req.attrs)) + Width(Truthy(req.location), 2)
                   + Width(req.xml_pretty, 1) + Width(Truthy(req.xml_out), 2)
                   + Width(Truthy(req.pins_out), 2)
            /\ SubSeq(returned, k + 1, Len(returned)) = extras
            /\ SubSeq(returned, 1, k) = BuildArgs([req EXCEPT !.extra_args = None])

C4_Witness ==
    /\ op = "build"
    /\ Truthy(req.pins_out)
    /\ req.extra_args = Some(<<sVerbose, sXmlPrettyOpt>>)
    /\ returned[Len(returned) - 1] = sVerbose
    /\ returned[Len(returned)] = sXmlPrettyOpt
    /\ returned[Len(returned) - 2] = sPinsPath

(***************************************************************************)
(* C5                                                                      *)
(***************************************************************************)
\* C5: in both invokers a non-zero exit code under check=True raises a
\* RuntimeError whose message holds the exit code and the trimmed stderr,
\* whatever stdout holds: nothing is returned and no JSON error is raised.
C5_StrictFailureRaises ==
    (Invoked /\ opts.check /\ proc.returncode # 0) =>
        /\ status = "raised"
        /\ raised.type = "RuntimeError"
        /\ Contains(raised.msg, IntToStr(proc.returncode))
        /\ Contains(raised.msg, Strip(proc.stderr))
        /\ (proc.returncode = 1 /\ proc.stderr \in {sBoom, sBoomPadded}) =>
              raised.msg = <<"e","m","i","t","C","o","m","p","o","n","e","n","t"," ","f","a","i","l","e","d"," ","(","e","x","i","t","=","1",")",":"," ","b","o","o","m">>
        /\ (proc.returncode = -9 /\ proc.stderr = <<>>) =>
              raised.msg = <<"e","m","i","t","C","o","m","p","o","n","e","n","t"," ","f","a","i","l","e","d"," ","(","e","x","i","t","=","-","9",")",":"," ">>

C5_Witness ==
    /\ op = "jar"
    /\ opts.check
    /\ proc.returncode = 1
    /\ proc.stderr = sBoomPadded
    /\ proc.stdout = <<"{","\"","o","k","\"",":">>
    /\ status = "raised"
    /\ raised.type = "RuntimeError"

(***************************************************************************)
(* C6                                                                      *)
(***************************************************************************)
\* C6 as stated: in both invokers a non-zero exit code under check=False
\* raises no error: a result decoded from stdout is returned, whatever
\* stdout holds (empty or partial).
C6_NonStrictAlwaysReturns ==
    (Invoked /\ ~opts.check /\ proc.returncode # 0) =>
        /\ status = "returned"
        /\ DOMAIN returned = {"stdout", "data"}
        /\ returned.stdout = Strip(proc.stdout)

\* C6 amended: under check=False a non-zero exit code raises no RuntimeError
\* and the exit code plays no part: when the trimmed stdout is empty or
\* decodes as JSON a result is returned, holding the trimmed stdout and the
\* decoded data and no exit code; when it is non-empty and malformed (a
\* partial document) the JSON-decode error is raised.
C6_NonStrictDecodesOrRaises ==
    (Invoked /\ ~opts.check /\ proc.returncode # 0) =>
        LET t == Strip(proc.stdout)
        IN  /\ status \in {"returned", "raised"}
            /\ status = "raised" => raised.type = "JSONDecodeError"
            /\ (status = "returned") <=> (t = <<>> \/ JsonLoads(t).ok)
            /\ status = "returned" =>
                  /\ DOMAIN returned = {"stdout", "data"}
                  /\ returned.stdout = t

C6_Witness ==
    /\ op = "emit"
    /\ ~opts.check
    /\ proc.returncode = 127
    /\ proc.stdout = <<"{","\"","o","k","\"",":">>
    /\ status = "raised"
    /\ raised.type = "JSONDecodeError"

C8_DataIsMapping ==
    (Invoked /\ status = "returned") =>
        /\ returned.data.t = "dict"
        /\ \A i \in DOMAIN returned.data.kids : returned.data.kids[i].t = "item"

(***************************************************************************)
(* C9                                                                      *)
(***************************************************************************)
PlainToken(tok) == tok # <<>> /\ \A i \in DOMAIN tok : tok[i] \in SafeChars

\* C9 as stated: main spawns the wrapper once with its arguments in a single
\* --args=<string> option holding the space-joined tokens, as the library
\* does, and returns the exit code of the process.
C9_MainUsesLibraryContract ==
    op = "main" =>
        /\ Len(spawned) = 1
        /\ spawned[1][Len(spawned[1])] = sArgsEq \o Join(<<" ">>, argv)
        /\ status = "returned"
        /\ returned = proc.returncode

\* C9 amended: main spawns exactly one process, ./gradlew -q emitComponent
\* --args <string> (no --daemon; the option and its value are two process
\* arguments), where <string> is the shell-quoted join (shlex.join) of its
\* arguments: the space-joined tokens exactly when every token is non-empty
\* and made of shell-safe characters only, and otherwise a string in which
\* each other token is wrapped in single quotes; main returns the exit code
\* of the process.
C9_MainQuotesAndForwards ==
    op = "main" =>
        /\ Len(spawned) = 1
        /\ Len(spawned[1]) = 5
        /\ SubSeq(spawned[1], 1, 4) = <<sGradlew, sQuiet, sEmitComponent, sArgs>>
        /\ (\A i \in DOMAIN argv : PlainToken(argv[i]))
              <=> (spawned[1][5] = Join(<<" ">>, argv))
        /\ argv = <<sAndGate>> => spawned[1][5] = <<"'","A","N","D"," ","G","a","t","e","'">>
        /\ argv = <<sComponentOpt, sAndGate>> => spawned[1][5] = <<"-","-","c","o","m","p","o","n","e","n","t"," ","'","A","N","D"," ","G","a","t","e","'">>
        /\ argv = <<sPin, <<>>>> => spawned[1][5] = <<"P","i","n"," ","'","'">>
        /\ argv = <<sItsToken>> => spawned[1][5] = <<"'","i","t","'","\"","'","\"","'","s","'">>
        /\ status = "returned"
        /\ returned = proc.returncode

C9_Witness ==
    /\ op = "main"
    /\ argv = <<sComponentOpt, sAndGate>>
    /\ proc.returncode = 127
    /\ returned = 127
    /\ spawned[1][5] # Join(<<" ">>, argv)

(***************************************************************************)
(* C10                                                                     *)
(***************************************************************************)
\* C10: emit_component spawns one process, <wrapper> --daemon -q
\* emitComponent --args=<joined>, <joined> being the built tokens joined by
\* single spaces and <wrapper> the caller's gradle_path when supplied and
\* otherwise gradlew.bat on Windows and ./gradlew elsewhere;
\* emit_component_jar spawns one process, <java> -cp <jar> <class> followed
\* by the same built tokens as separate arguments, in order.
C10_Commands ==
    /\ op = "emit" =>
          LET args == BuildArgs(req)
              wrapper == IF opts.gradle_path # None THEN opts.gradle_path[1]
                         ELSE IF opts.os_name = "nt" THEN sGradlewBat ELSE sGradlew
          IN  /\ Len(spawned) = 1
              /\ spawned[1] = <<wrapper, sDaemon, sQuiet, sEmitComponent,
                                sArgsEq \o Join(<<" ">>, args)>>
              /\ Len(spawned[1][5])
                    = Len(sArgsEq) + (Len(args) - 1) + Len(Join(<<>>, args))
              /\ req = ExampleRequest =>
                    spawned[1][5]
                       = <<"-","-","a","r","g","s","=","-","-","c","o","m","p","o","n","e","n","t"," ","A","N","D"," ","G","a","t","e"," ","-","-","a","t","t","r"," ","f","a","c","i","n","g","=","e","a","s","t"," ","-","-","l","o","c"," ","4","0",",","2","0">>
    /\ op = "jar" =>
          LET args == BuildArgs(req)
          IN  /\ Len(spawned) = 1
              /\ Len(spawned[1]) = 4 + Len(args)
              /\ SubSeq(spawned[1], 1, 4)
                    = <<opts.java_path, sCp, opts.jar_path, sEmitComponentCli>>
              /\ \A i \in DOMAIN args : spawned[1][4 + i] = args[i]

C10_Witness ==
    /\ op = "emit"
    /\ req = ExampleRequest
    /\ opts.gradle_path = None
    /\ opts.os_name = "nt"
    /\ spawned[1][1] = sGradlewBat
    /\ Len(spawned[1]) = 5
====
